---------------------------- MODULE Spec2Model ----------------------------
(***************************************************************************)
(* A model of mid2seq (src/mid2seq.c): the conversion of one format-0 MIDI *)
(* track into the SEQ event stream.  The program is a batch pipeline:      *)
(*   pass 1  MidiReader      bytes of the track  -> events, tempo events   *)
(*   pass 2  GateCalculator  pairs Note-On / Note-Off, marks removals      *)
(*   pass 3  EventSorter     qsort with compare_events                     *)
(*   pass 4  TempoSynthesizer                                              *)
(*   write   SeqEncoder      headers, tempo track, event track, 0x83       *)
(* Every loop iteration of the source is one action.                       *)
(***************************************************************************)
EXTENDS Integers, Sequences, FiniteSets

VARIABLES
  file,                 \* the bytes of the input that follow the MTrk header
  division,             \* the MThd header's division (ticks per quarter note)
  track_length,         \* the length the MTrk header declares
  pos,                  \* ftell(midi_file) - track_start_pos
  eof,                  \* the stream's end-of-file indicator (feof)
  events,               \* events[0 .. event_count-1], here 1-based
  tempo_events,         \* tempo_events[0 .. tempo_count-1], here 1-based
  last_status,
  current_time,
  last_tempo_time,
  parsed,               \* history: what pass 1 produced, kept for the claims
  i,                    \* the index of the loop that is running (0-based)
  active_note_indices,  \* the 16x128 table, stored sparsely: absent = -1
  seq_header,           \* the SEQ header as written
  tempo_track,          \* the tempo entries as written
  last_event_time,
  out,                  \* the bytes of the event track, as written
  recs,                 \* history: where each event record lies in out
  pc                    \* the pass the program is in

vars == << file, division, track_length, pos, eof, events, tempo_events, last_status,
           current_time, last_tempo_time, parsed, i, active_note_indices,
           seq_header, tempo_track, last_event_time, out, recs, pc >>

(***************************************************************************)
(* Bounds of the model.                                                    *)
(***************************************************************************)
\* The input track is a concatenation of at most MaxChunks chunks of Chunks.
MaxChunks == 3
\* The MTrk header declares the track's real length, or MaxMissing bytes more
\* (a truncated file).
MaxMissing == 1
\* Once the reader is at the end of the file, the parse loop is followed
\* while current_time is at most MaxTime.
MaxTime == 1000
\* The tracks of EncoderSpec carry every tick value in 0 .. MaxValue.
MaxValue == 17000

(***************************************************************************)
(* Machine arithmetic.                                                     *)
(***************************************************************************)
\* uint8_t and uint16_t wrap modulo 2^8 and 2^16.  A uint32_t wraps modulo
\* 2^32, which the model checker's 32-bit integers cannot hold: a uint32_t is
\* held as itself, and the inputs of the model keep every time and tick count
\* below 2^31, so that no sum or difference of the run wraps (Add32, Sub32).
\* The one value of the program above that, 0xFFFFFFFF, is held as -1, its
\* two's-complement reading, which is the same number modulo 2^32.
U16 == 65536
U8 == 256
Add32(a, b) == a + b
Sub32(a, b) == a - b
Shl32(a, n) == a * n
ALL_ONES == -1

\* status & 0xF0 and status & 0x0F
TypeOf(status) == (status \div 16) * 16
ChannelOf(status) == status % 16

NOTE_OFF == 128            \* 0x80
NOTE_ON == 144             \* 0x90
AFTERTOUCH == 160          \* 0xA0
CONTROL == 176             \* 0xB0
PROGRAM == 192             \* 0xC0
PRESSURE == 208            \* 0xD0
PITCH_BEND == 224          \* 0xE0
META == 255                \* 0xFF
SET_TEMPO == 81            \* 0x51
MAX_TEMPO == 255           \* tempo_count < 255
END_OF_TRACK == 131        \* 0x83
NONE == -1                 \* active_note_indices: no active note
REMOVED == 0               \* status 0x00 marks a consumed Note-Off
ROW == 128                 \* keys per channel row of active_note_indices

(***************************************************************************)
(* The input.  A track is built from these chunks, each one event record   *)
(* of a MIDI file (delta time, then the event).                            *)
(***************************************************************************)
Chunks ==
  << << 0, 144, 60, 100 >>,            \* 1: Note-On  ch 0 key 60 vel 100
     << 132, 88, 128, 60, 0 >>,        \* 2: +600 ticks, Note-Off ch 0 key 60
     << 0, 60, 0 >>,                   \* 3: running status: key 60, value 0
     << 0, 131, 60, 0 >>,              \* 4: Note-Off ch 3 key 60
     << 0, 144, 200, 100 >>,           \* 5: Note-On  ch 0, data byte 200
     << 0, 145, 72, 100 >>,            \* 6: Note-On  ch 1 key 72
     << 129, 0, 128, 200, 0 >>,        \* 7: +128 ticks, Note-Off ch 0, data 200
     << 0, 176, 7, 127 >>,             \* 8: Control Change ch 0
     << 0, 255, 81, 3, 7, 161, 32 >>,  \* 9: Set Tempo 500000
     << 0, 255, 81, 3, 15, 66, 64 >>,  \* 10: Set Tempo 1000000
     << 0, 255, 1, 130, 0 >> >>        \* 11: text meta event, length 256

RECURSIVE Concat(_, _)
Concat(sel, n) ==
  IF n = 0 THEN << >> ELSE Concat(sel, n - 1) \o Chunks[sel[n]]

(***************************************************************************)
(* stdio on the input stream.  A reader state is [pos, eof].               *)
(***************************************************************************)
\* fgetc: the next byte, or EOF (-1) with the end-of-file indicator set.
fgetc(r) ==
  IF r.pos < Len(file)
    THEN [c |-> file[r.pos + 1], r |-> [pos |-> r.pos + 1, eof |-> r.eof]]
    ELSE [c |-> -1, r |-> [pos |-> r.pos, eof |-> TRUE]]

\* The conversion of fgetc's int to uint8_t: EOF becomes 0xFF.
ToU8(c) == IF c < 0 THEN c + U8 ELSE c % U8

\* ungetc pushes the byte just read back: the position steps back by one and
\* the end-of-file indicator is cleared.
ungetc(r) == [pos |-> r.pos - 1, eof |-> FALSE]

\* fseek(file, n, SEEK_CUR): moves the position (past the end of the file if
\* need be) and clears the end-of-file indicator.
fseek(r, n) == [pos |-> r.pos + n, eof |-> FALSE]

\* read_variable_length: the loop `while (byte & 0x80)`.
RECURSIVE vlq_loop(_, _, _)
vlq_loop(byte, value, r) ==
  IF byte < 128 THEN [value |-> value, r |-> r]
  ELSE IF r.eof THEN [value |-> value, r |-> r]
  ELSE LET g == fgetc(r)
           b == ToU8(g.c)
       IN vlq_loop(b, Shl32(value, 128) + (b % 128), g.r)

read_variable_length(r) ==
  IF r.eof THEN [value |-> 0, r |-> r]
  ELSE LET g == fgetc(r)
           b == ToU8(g.c)
       IN vlq_loop(b, b % 128, g.r)

(***************************************************************************)
(* Pass 1: one iteration of the loop that reads the track.                 *)
(***************************************************************************)
\* The head of an event record: the delta time and the status byte, with
\* running status.
EventHead(r, last) ==
  LET d == read_variable_length(r)
      g == fgetc(d.r)
      b == ToU8(g.c)
  IN  IF b < 128
        THEN [delta |-> d.value, status |-> last, r |-> ungetc(g.r)]
        ELSE [delta |-> d.value, status |-> b, r |-> g.r]

\* The head of a meta event: the meta type and the length field.  `length`
\* is what the program keeps of it, in a uint8_t.
MetaHead(r) ==
  LET t == fgetc(r)
      l == read_variable_length(t.r)
  IN  [meta_type |-> ToU8(t.c), decoded |-> l.value,
       length |-> l.value % U8, r |-> l.r]

\* for (i = 0; i < length; ++i) mspb = (mspb << 8) | fgetc(midi_file);
RECURSIVE read_mspb(_, _, _)
read_mspb(n, mspb, r) ==
  IF n = 0 THEN [mspb |-> mspb, r |-> r]
  ELSE LET g == fgetc(r)
       IN read_mspb(n - 1,
                    IF g.c < 0 THEN ALL_ONES ELSE Shl32(mspb, 256) + g.c,
                    g.r)

\* Whether a meta event with this head is recorded as a tempo event.
IsTempo(m) == m.meta_type = SET_TEMPO /\ Len(tempo_events) < MAX_TEMPO

TwoData == {NOTE_ON, NOTE_OFF, CONTROL, AFTERTOUCH, PITCH_BEND}
OneData == {PROGRAM, PRESSURE}

NewEvent(time, status, d1, d2) ==
  [absolute_time |-> time, status |-> status, data1 |-> d1, data2 |-> d2,
   gate_time |-> 0, ord |-> Len(events) + 1]

ParseEvent ==
  /\ pc = "parse"
  /\ pos < track_length
  /\ (pos >= Len(file)) => (current_time <= MaxTime)
  /\ LET h == EventHead([pos |-> pos, eof |-> eof], last_status)
         time == Add32(current_time, h.delta)
         type == TypeOf(h.status)
     IN  /\ current_time' = time
         /\ last_status' = h.status
         /\ IF type \in TwoData THEN
              LET a == fgetc(h.r)
                  b == fgetc(a.r)
              IN  /\ events' = Append(events,
                          NewEvent(time, h.status, ToU8(a.c), ToU8(b.c)))
                  /\ pos' = b.r.pos /\ eof' = b.r.eof
                  /\ UNCHANGED << tempo_events, last_tempo_time >>
            ELSE IF type \in OneData THEN
              LET a == fgetc(h.r)
              IN  /\ events' = Append(events,
                          NewEvent(time, h.status, ToU8(a.c), 0))
                  /\ pos' = a.r.pos /\ eof' = a.r.eof
                  /\ UNCHANGED << tempo_events, last_tempo_time >>
            ELSE IF h.status = META THEN
              LET m == MetaHead(h.r)
              IN  IF IsTempo(m) THEN
                    LET t == read_mspb(m.length, 0, m.r)
                    IN  /\ tempo_events' = Append(tempo_events,
                              [step_time |-> Sub32(time, last_tempo_time),
                               mspb |-> t.mspb])
                        /\ last_tempo_time' = time
                        /\ pos' = t.r.pos /\ eof' = t.r.eof
                        /\ UNCHANGED events
                  ELSE
                    LET s == fseek(m.r, m.length)
                    IN  /\ pos' = s.pos /\ eof' = s.eof
                        /\ UNCHANGED << events, tempo_events, last_tempo_time >>
            ELSE
              /\ pos' = h.r.pos /\ eof' = h.r.eof
              /\ UNCHANGED << events, tempo_events, last_tempo_time >>
  /\ UNCHANGED << file, division, track_length, parsed, i, active_note_indices,
                  seq_header, tempo_track, last_event_time, out, recs, pc >>

\* active_note_indices[i][j] = -1 for every i, j.
EmptyTable == [s \in {} |-> NONE]

\* The loop's condition fails: fclose, and pass 2 starts with an empty table.
EndOfTrack ==
  /\ pc = "parse"
  /\ ~(pos < track_length)
  /\ parsed' = [events |-> events, tempo_events |-> tempo_events]
  /\ i' = 0
  /\ active_note_indices' = EmptyTable
  /\ pc' = "gate"
  /\ UNCHANGED << file, division, track_length, pos, eof, events, tempo_events,
                  last_status, current_time, last_tempo_time, seq_header,
                  tempo_track, last_event_time, out, recs >>

(***************************************************************************)
(* Pass 2: one iteration of the loop that calculates gate times.           *)
(***************************************************************************)
\* The place of active_note_indices[channel][key] in the table, whose rows
\* of 128 ints lie one after the other: a key of 128 or more lands in the
\* row of the next channel.  (The inputs of the model use no channel 15, so
\* no access leaves the table itself.)
Slot(channel, key) == channel * ROW + key

Active(table, s) == IF s \in DOMAIN table THEN table[s] ELSE NONE

Store(table, s, v) ==
  IF v = NONE
    THEN [x \in DOMAIN table \ {s} |-> table[x]]
    ELSE [x \in DOMAIN table \cup {s} |-> IF x = s THEN v ELSE table[x]]

IsNoteOn(e) == TypeOf(e.status) = NOTE_ON /\ e.data2 > 0

\* Note-Off, or Note-On with velocity 0.
IsTerminating(e) ==
  \/ TypeOf(e.status) = NOTE_OFF
  \/ TypeOf(e.status) = NOTE_ON /\ e.data2 = 0

GateStep ==
  /\ pc = "gate"
  /\ i < Len(events)
  /\ LET e == events[i + 1]
         s == Slot(ChannelOf(e.status), e.data1)
         prev == Active(active_note_indices, s)
     IN  IF IsNoteOn(e) THEN
           /\ events' =
                IF prev # NONE
                  THEN [events EXCEPT ![prev + 1].gate_time =
                          Sub32(e.absolute_time, events[prev + 1].absolute_time)]
                  ELSE events
           /\ active_note_indices' = Store(active_note_indices, s, i)
         ELSE IF IsTerminating(e) /\ prev # NONE THEN
           /\ events' =
                [events EXCEPT
                   ![prev + 1].gate_time =
                      Sub32(e.absolute_time, events[prev + 1].absolute_time),
                   ![i + 1].status = REMOVED]
           /\ active_note_indices' = Store(active_note_indices, s, NONE)
         ELSE UNCHANGED << events, active_note_indices >>
  /\ i' = i + 1
  /\ UNCHANGED << file, division, track_length, pos, eof, tempo_events,
                  last_status, current_time, last_tempo_time, parsed,
                  seq_header, tempo_track, last_event_time, out, recs, pc >>

(***************************************************************************)
(* Pass 3: qsort(events, event_count, sizeof(TrackEvent), compare_events). *)
(***************************************************************************)
\* compare_events without its rule for events at the same time.
compare_events_by_time_only(a, b) ==
  IF a.absolute_time < b.absolute_time THEN -1
  ELSE IF a.absolute_time > b.absolute_time THEN 1
  ELSE 0

compare_events(a, b) ==
  IF a.absolute_time < b.absolute_time THEN -1
  ELSE IF a.absolute_time > b.absolute_time THEN 1
  ELSE IF IsTerminating(a) /\ ~IsTerminating(b) THEN -1
  ELSE IF IsTerminating(b) /\ ~IsTerminating(a) THEN 1
  ELSE 0

Orderings(n) ==
  {p \in [1 .. n -> 1 .. n] : \A j, k \in 1 .. n : p[j] = p[k] => j = k}

\* What qsort promises of its result: the elements, in an order in which no
\* element compares greater than a later one.  The order of elements that
\* compare equal is unspecified.
InOrder(s) ==
  \A j, k \in 1 .. Len(s) : j < k => compare_events(s[j], s[k]) <= 0

SortEvents ==
  /\ pc = "gate"
  /\ ~(i < Len(events))
  /\ \E p \in Orderings(Len(events)) :
       LET s == [k \in 1 .. Len(events) |-> events[p[k]]]
       IN  InOrder(s) /\ events' = s
  /\ pc' = "tempo"
  /\ UNCHANGED << file, division, track_length, pos, eof, tempo_events,
                  last_status, current_time, last_tempo_time, parsed, i,
                  active_note_indices, seq_header, tempo_track,
                  last_event_time, out, recs >>

(***************************************************************************)
(* Pass 4: the first musical event's time, and the two-entry tempo track.  *)
(***************************************************************************)
RECURSIVE first_musical_event_time(_, _)
first_musical_event_time(evs, k) ==
  IF k > Len(evs) THEN 0
  ELSE IF evs[k].status # META THEN evs[k].absolute_time
  ELSE first_musical_event_time(evs, k + 1)

total_song_time(evs) ==
  IF Len(evs) > 0 THEN evs[Len(evs)].absolute_time ELSE 0

\* SynthesizeTempo keeping the mspb of the last recorded tempo event.
SynthesizeTempo_last(tempo, first, total) ==
  IF Len(tempo) > 0
    THEN << [step_time |-> first, mspb |-> tempo[Len(tempo)].mspb],
            [step_time |-> Sub32(total, first),
             mspb |-> tempo[Len(tempo)].mspb] >>
    ELSE tempo

SynthesizeTempo(tempo, first, total) ==
  IF Len(tempo) > 0
    THEN << [step_time |-> first, mspb |-> tempo[1].mspb],
            [step_time |-> Sub32(total, first), mspb |-> tempo[1].mspb] >>
    ELSE tempo

TempoSynthesizer ==
  /\ pc = "tempo"
  /\ tempo_events' = SynthesizeTempo(tempo_events,
                                     first_musical_event_time(events, 1),
                                     total_song_time(events))
  /\ pc' = "header"
  /\ UNCHANGED << file, division, track_length, pos, eof, events, last_status,
                  current_time, last_tempo_time, parsed, i,
                  active_note_indices, seq_header, tempo_track,
                  last_event_time, out, recs >>

(***************************************************************************)
(* The SEQ file: headers and tempo track.                                  *)
(***************************************************************************)
WriteHeader ==
  /\ pc = "header"
  /\ LET tempo_count == Len(tempo_events)
     IN  seq_header' =
           [num_songs |-> 1, song_ptr |-> 6,
            resolution |-> division,
            num_tempo_events |-> tempo_count % U16,
            data_offset |-> (8 + tempo_count * 8) % U16,
            tempo_loop_offset |-> IF tempo_count > 0 THEN 8 + 1 * 8 ELSE 0]
  /\ tempo_track' = tempo_events
  /\ last_event_time' = 0
  /\ i' = 0
  /\ pc' = "events"
  /\ UNCHANGED << file, division, track_length, pos, eof, events,
                  tempo_events, last_status, current_time, last_tempo_time,
                  parsed, active_note_indices, out, recs >>

(***************************************************************************)
(* The SEQ file: the event track.                                          *)
(***************************************************************************)
\* fputc writes its int argument converted to unsigned char.
fputc(x) == x % U8

\* while (*v >= weight) { fputc(opcode, file); *v -= weight; }
RECURSIVE chunk_loop(_, _, _, _)
chunk_loop(v, weight, opcode, bytes) ==
  IF v >= weight
    THEN chunk_loop(v - weight, weight, opcode, Append(bytes, fputc(opcode)))
    ELSE [bytes |-> bytes, rem |-> v]

\* write_large_delta_events whose last loop runs while (*delta > 0x200).
RECURSIVE chunk_loop_above(_, _, _, _)
chunk_loop_above(v, weight, opcode, bytes) ==
  IF v > weight
    THEN chunk_loop_above(v - weight, weight, opcode,
                          Append(bytes, fputc(opcode)))
    ELSE [bytes |-> bytes, rem |-> v]

write_large_delta_events_above(delta) ==
  LET a == chunk_loop(delta, 4096, 143, << >>)
      b == chunk_loop(a.rem, 2048, 142, a.bytes)
  IN  chunk_loop_above(b.rem, 512, 141, b.bytes)

\* Step extend opcodes 0x8F (4096), 0x8E (2048), 0x8D (512).
write_large_delta_events(delta) ==
  LET a == chunk_loop(delta, 4096, 143, << >>)
      b == chunk_loop(a.rem, 2048, 142, a.bytes)
  IN  chunk_loop(b.rem, 512, 141, b.bytes)

\* Gate extend opcodes 0x8B (8192), 0x8A (4096), 0x89 (2048), 0x88 (512).
write_extended_gate(gate) ==
  LET a == chunk_loop(gate, 8192, 139, << >>)
      b == chunk_loop(a.rem, 4096, 138, a.bytes)
      c == chunk_loop(b.rem, 2048, 137, b.bytes)
  IN  chunk_loop(c.rem, 512, 136, c.bytes)

\* The Note-On record: ctl_byte with the overflow flags 0x20 (delta) and 0x40
\* (gate), key, velocity, gate byte, delta byte.
NoteOnRecord(e, delta_time) ==
  LET g == write_extended_gate(e.gate_time)
      dflag == delta_time >= 256
      gflag == g.rem >= 256
      ctl_byte == ChannelOf(e.status) + (IF dflag THEN 32 ELSE 0)
                                      + (IF gflag THEN 64 ELSE 0)
      d == IF dflag THEN delta_time - 256 ELSE delta_time
      gt == IF gflag THEN g.rem - 256 ELSE g.rem
  IN  [bytes |-> g.bytes \o << fputc(ctl_byte), fputc(e.data1), fputc(e.data2),
                              fputc(gt), fputc(d) >>,
       lead |-> Len(g.bytes) + 1]

\* Every other record: 0x8C per 256 ticks left, the status byte, the data
\* bytes of its type, the delta byte.
OtherRecord(e, delta_time) ==
  LET x == chunk_loop(delta_time, 256, 140, << >>)
      type == TypeOf(e.status)
      data == IF type = CONTROL \/ type = AFTERTOUCH
                THEN << fputc(e.data1), fputc(e.data2) >>
              ELSE IF type = PITCH_BEND THEN << fputc(e.data2) >>
              ELSE << fputc(e.data1) >>
  IN  [bytes |-> x.bytes \o << fputc(e.status) >> \o data \o << fputc(x.rem) >>,
       lead |-> Len(x.bytes) + 1]

\* What one iteration of the write loop puts out for an event that was not
\* removed: the bytes, and the place among them of the record's leading byte.
EncodeEvent(e, last) ==
  LET l == write_large_delta_events(Sub32(e.absolute_time, last))
      r == IF TypeOf(e.status) = NOTE_ON
             THEN NoteOnRecord(e, l.rem)
             ELSE OtherRecord(e, l.rem)
  IN  [bytes |-> l.bytes \o r.bytes, lead |-> Len(l.bytes) + r.lead]

WriteEvent ==
  /\ pc = "events"
  /\ i < Len(events)
  /\ LET e == events[i + 1]
     IN  IF e.status = REMOVED
           THEN UNCHANGED << last_event_time, out, recs >>
           ELSE LET w == EncodeEvent(e, last_event_time)
                IN  /\ last_event_time' = e.absolute_time
                    /\ out' = out \o w.bytes
                    /\ recs' = Append(recs,
                                 [ord |-> e.ord,
                                  first |-> Len(out) + 1,
                                  lead |-> Len(out) + w.lead,
                                  last |-> Len(out) + Len(w.bytes)])
  /\ i' = i + 1
  /\ UNCHANGED << file, division, track_length, pos, eof, events,
                  tempo_events, last_status, current_time, last_tempo_time,
                  parsed, active_note_indices, seq_header, tempo_track, pc >>

\* fputc(0x83, seq_file): the end of track marker.
WriteEnd ==
  /\ pc = "events"
  /\ ~(i < Len(events))
  /\ out' = Append(out, fputc(END_OF_TRACK))
  /\ pc' = "done"
  /\ UNCHANGED << file, division, track_length, pos, eof, events,
                  tempo_events, last_status, current_time, last_tempo_time,
                  parsed, i, active_note_indices, seq_header, tempo_track,
                  last_event_time, recs >>

(***************************************************************************)
(* The program, from the MTrk header on.                                   *)
(***************************************************************************)
NoHeader ==
  [num_songs |-> 0, song_ptr |-> 0, resolution |-> 0, num_tempo_events |-> 0,
   data_offset |-> 0, tempo_loop_offset |-> 0]

\* The state in which pass 1 starts on a given input.
Start(f, div, len) ==
  /\ file = f
  /\ division = div
  /\ track_length = len
  /\ pos = 0
  /\ eof = FALSE
  /\ events = << >>
  /\ tempo_events = << >>
  /\ last_status = 0
  /\ current_time = 0
  /\ last_tempo_time = 0
  /\ parsed = [events |-> << >>, tempo_events |-> << >>]
  /\ i = 0
  /\ active_note_indices = EmptyTable
  /\ seq_header = NoHeader
  /\ tempo_track = << >>
  /\ last_event_time = 0
  /\ out = << >>
  /\ recs = << >>
  /\ pc = "parse"

Init ==
  \E n \in 0 .. MaxChunks :
    \E sel \in [1 .. n -> 1 .. Len(Chunks)] :
      \E missing \in {0, MaxMissing} :
        Start(Concat(sel, n), 480, Len(Concat(sel, n)) + missing)

Next ==
  \/ ParseEvent
  \/ EndOfTrack
  \/ GateStep
  \/ SortEvents
  \/ TempoSynthesizer
  \/ WriteHeader
  \/ WriteEvent
  \/ WriteEnd

Spec == Init /\ [][Next]_vars

(***************************************************************************)
(* The encoder on every tick value: a track of one Note-On sounding for v  *)
(* ticks after v ticks of silence, or of one Control Change after v ticks. *)
(***************************************************************************)
\* A MIDI variable-length quantity, as a writer of MIDI files encodes it.
RECURSIVE vlq_high(_)
vlq_high(v) ==
  IF v = 0 THEN << >> ELSE Append(vlq_high(v \div 128), 128 + (v % 128))

Vlq(v) == Append(vlq_high(v \div 128), v % 128)

NoteTrack(v) == Vlq(v) \o << 144, 60, 100 >> \o Vlq(v) \o << 128, 60, 0 >>
ControlTrack(v) == Vlq(v) \o << 176, 7, 127 >>

EncoderInit ==
  \E v \in 0 .. MaxValue :
    \E f \in {NoteTrack(v), ControlTrack(v)} :
      Start(f, 480, Len(f))

EncoderSpec == EncoderInit /\ [][Next]_vars

(***************************************************************************)
(* Reading the event track back.                                           *)
(***************************************************************************)
\* The ticks a step extend opcode stands for.
StepWeight(b) ==
  IF b = 143 THEN 4096 ELSE IF b = 142 THEN 2048 ELSE IF b = 141 THEN 512
  ELSE IF b = 140 THEN 256 ELSE 0

\* The ticks a gate extend opcode stands for.
GateWeight(b) ==
  IF b = 139 THEN 8192 ELSE IF b = 138 THEN 4096 ELSE IF b = 137 THEN 2048
  ELSE IF b = 136 THEN 512 ELSE 0

RECURSIVE SumStep(_, _)
SumStep(from, to) ==
  IF from > to THEN 0 ELSE StepWeight(out[from]) + SumStep(from + 1, to)

RECURSIVE SumGate(_, _)
SumGate(from, to) ==
  IF from > to THEN 0 ELSE GateWeight(out[from]) + SumGate(from + 1, to)

\* A record whose leading byte is a control byte (channel and flags), not a
\* status byte.
IsNoteRecord(r) == out[r.lead] < 128

\* The delta time a record stands for: its step opcodes, the control byte's
\* flag 0x20, the delta byte (the record's last).
DeltaOf(r) ==
  SumStep(r.first, r.lead - 1)
    + (IF IsNoteRecord(r) /\ (out[r.lead] \div 32) % 2 = 1 THEN 256 ELSE 0)
    + out[r.last]

\* The gate time a Note-On record stands for: its gate opcodes, the control
\* byte's flag 0x40, the gate byte (the last but one).
GateOf(r) ==
  SumGate(r.first, r.lead - 1)
    + (IF (out[r.lead] \div 64) % 2 = 1 THEN 256 ELSE 0)
    + out[r.last - 1]

Records == {recs[k] : k \in 1 .. Len(recs)}

\* The event a record was written for.
EventOf(r) == CHOOSE e \in {events[k] : k \in 1 .. Len(events)} : e.ord = r.ord

Sorted == pc \in {"tempo", "header", "events", "done"}

(***************************************************************************)
(* The claims.                                                             *)
(***************************************************************************)

\* C1: when the program has written the event track, its last byte is the
\* terminator 0x83, and no event record written before it has 0x83 as its
\* leading (control or status) byte.
C1_OneTerminator ==
  pc = "done" =>
    /\ out[Len(out)] = END_OF_TRACK
    /\ \A r \in Records : out[r.lead] # END_OF_TRACK

\* The next note event (Note-On or Note-Off) after the j-th event of the
\* file on the same channel and key, or 0.
NoteEventsAfter(j) ==
  {k \in j + 1 .. Len(parsed.events) :
     /\ TypeOf(parsed.events[k].status) \in {NOTE_ON, NOTE_OFF}
     /\ ChannelOf(parsed.events[k].status) = ChannelOf(parsed.events[j].status)
     /\ parsed.events[k].data1 = parsed.events[j].data1}

NextOnKey(j) ==
  IF NoteEventsAfter(j) = {} THEN 0
  ELSE CHOOSE k \in NoteEventsAfter(j) : \A m \in NoteEventsAfter(j) : k <= m

\* C2: for every Note-On with velocity > 0 whose next event in file order on
\* its channel and key is a Note-Off or a Note-On with velocity 0, the gate
\* value read back from the note's record is the terminating event's time
\* minus the Note-On's, and the terminating event has no record.
C2_GateIsNoteLength ==
  pc = "done" =>
    \A j \in 1 .. Len(parsed.events) :
      LET k == NextOnKey(j)
      IN  (IsNoteOn(parsed.events[j]) /\ k # 0
             /\ IsTerminating(parsed.events[k]))
          => /\ \E r \in Records :
                  /\ r.ord = j
                  /\ GateOf(r) = parsed.events[k].absolute_time
                                   - parsed.events[j].absolute_time
             /\ \A r \in Records : r.ord # k

\* The time of the event written before the k-th record (0 before the first).
TimeBefore(k) ==
  IF k = 1 THEN 0 ELSE EventOf(recs[k - 1]).absolute_time

\* C3: for every value v, the step and gate extend loops leave a remainder
\* below 512, and the weights of the opcodes and flags written plus the
\* final byte (a byte: below 256) are v again, for the delta of Note-On and
\* of other records and for the gate of Note-On records.
C3_ChunkRoundTrip ==
  \A k \in 1 .. Len(recs) :
    LET e == EventOf(recs[k])
        v == e.absolute_time - TimeBefore(k)
        l == write_large_delta_events(v)
        g == write_extended_gate(e.gate_time)
    IN  /\ l.rem < 512
        /\ DeltaOf(recs[k]) = v
        /\ TypeOf(e.status) = NOTE_ON =>
             /\ IsNoteRecord(recs[k])
             /\ g.rem < 512
             /\ GateOf(recs[k]) = e.gate_time

\* C3's case: a Note-On record is written whose delta and gate both use
\* every extend opcode of their kind and the overflow flag.
C3_Witness ==
  /\ pc = "done"
  /\ \E r \in Records :
       /\ IsNoteRecord(r)
       /\ DeltaOf(r) >= 4096 + 2048 + 512 + 256
       /\ GateOf(r) >= 8192 + 4096 + 2048 + 512 + 256
       /\ out[r.lead] \div 32 = 3
       /\ r.lead - r.first = 3 + 1 + 1 + 1 + 1 + 1 + 1

\* C4: after pass 3 the events are in non-decreasing time order, and of two
\* events at the same time a terminating one never comes after one that is
\* not (by the status the events hold when they are sorted).
C4_SortedByTimeThenClass ==
  Sorted =>
    \A j, k \in 1 .. Len(events) :
      j < k =>
        /\ events[j].absolute_time <= events[k].absolute_time
        /\ events[j].absolute_time = events[k].absolute_time
             => ~(IsTerminating(events[k]) /\ ~IsTerminating(events[j]))

\* C4's case: the sort has moved a terminating event in front of an event of
\* the same time that preceded it in the file.
C4_Witness ==
  /\ pc = "tempo"
  /\ \E j, k \in 1 .. Len(events) :
       /\ j < k
       /\ events[j].absolute_time = events[k].absolute_time
       /\ IsTerminating(events[j]) /\ ~IsTerminating(events[k])
       /\ events[j].ord > events[k].ord

\* C5: with no Set Tempo event recorded the header's tempo count and loop
\* offset are 0 and no tempo entry is written; with one or more recorded,
\* two entries are written, both with the mspb of the first one recorded.
C5_TempoTrack ==
  pc \in {"events", "done"} =>
    /\ Len(parsed.tempo_events) = 0 =>
         /\ seq_header.num_tempo_events = 0
         /\ seq_header.tempo_loop_offset = 0
         /\ tempo_track = << >>
    /\ Len(parsed.tempo_events) >= 1 =>
         /\ Len(tempo_track) = 2
         /\ tempo_track[1].mspb = parsed.tempo_events[1].mspb
         /\ tempo_track[2].mspb = parsed.tempo_events[1].mspb

\* C5's case: several Set Tempo events with different values were recorded,
\* and the tempo track is written.
C5_Witness ==
  /\ pc = "done"
  /\ Len(parsed.tempo_events) = 3
  /\ parsed.tempo_events[1].mspb # parsed.tempo_events[3].mspb
  /\ Len(tempo_track) = 2

\* C6: the parse loop terminates.  What the next iterations do is fixed by
\* the file, the position, the end-of-file indicator, last_status and the
\* number of tempo events; an iteration that leaves all of them as they were
\* with the loop's condition still true is followed by the same iteration for
\* ever.  The claim is that no iteration does so.
C6_ParseLoopAdvances ==
  [][ParseEvent =>
       ~(/\ pos' < track_length
         /\ pos' = pos
         /\ eof' = eof
         /\ last_status' = last_status
         /\ Len(tempo_events') = Len(tempo_events))]_vars

\* An event as the program holds it: without the model's record of its
\* place in the file.
Content(e) == [e EXCEPT !.ord = 0]

\* The stable orderings of a sequence of events: sorted, with events that
\* compare equal in the order of the file.
StableOrderings(evs) ==
  {s \in {[k \in 1 .. Len(evs) |-> evs[p[k]]] : p \in Orderings(Len(evs))} :
     \A j, k \in 1 .. Len(s) :
       j < k => \/ compare_events(s[j], s[k]) < 0
                \/ compare_events(s[j], s[k]) = 0 /\ s[j].ord < s[k].ord}

\* C7: the sort is stable: events that compare equal keep the order they had
\* in the file, so that the sorted sequence is the one stable ordering of the
\* events.
C7_StableSort ==
  [][SortEvents =>
       \E s \in StableOrderings(events) :
         \A k \in 1 .. Len(s) : Content(events'[k]) = Content(s[k])]_vars

\* The head of the event the next iteration of the parse loop reads.
NextHead == EventHead([pos |-> pos, eof |-> eof], last_status)

\* C8: an iteration that meets a meta event it does not record as a tempo
\* event leaves the position at the end of the length field plus the value
\* the length field encodes.
C8_MetaSkipsItsLength ==
  [][(ParseEvent /\ NextHead.status = META /\ ~IsTempo(MetaHead(NextHead.r)))
       => pos' = MetaHead(NextHead.r).r.pos + MetaHead(NextHead.r).decoded]_vars

\* Every occupied slot of the table holds the index of an event already
\* processed that is a Note-On with velocity > 0 of the slot's channel and
\* key, not removed, whose gate_time has not been set.
SlotsHoldTheirNotes ==
  \A s \in DOMAIN active_note_indices :
    LET idx == active_note_indices[s]
        e == events[idx + 1]
    IN  /\ idx >= 0 /\ idx < i
        /\ IsNoteOn(e)
        /\ ChannelOf(e.status) = s \div ROW
        /\ e.data1 = s % ROW
        /\ e.gate_time = 0

\* A Note-On with velocity > 0 whose slot is occupied closes the earlier
\* note at its own time and takes the slot; neither is marked removed.
RetriggerCloses ==
  LET e == events[i + 1]
      s == Slot(ChannelOf(e.status), e.data1)
      prev == Active(active_note_indices, s)
  IN  (IsNoteOn(e) /\ prev # NONE) =>
        /\ events'[prev + 1].gate_time =
             e.absolute_time - events[prev + 1].absolute_time
        /\ Active(active_note_indices', s) = i
        /\ events'[prev + 1].status # REMOVED
        /\ events'[i + 1].status # REMOVED

\* C9: during pass 2, after every prefix of the events, the table's slots
\* hold their own active notes (so that a note still active when the pass
\* ends has gate_time 0), and a Note-On on an occupied slot closes the
\* earlier note.
C9_ActiveNoteTable ==
  [][GateStep => (SlotsHoldTheirNotes' /\ RetriggerCloses)]_vars

\* C10: every event stored has data1 and data2 in 0 .. 127, so the table is
\* accessed within the row of the event's channel.
C10_DataBytesInRange ==
  \A k \in 1 .. Len(events) :
    /\ events[k].data1 \in 0 .. 127
    /\ events[k].data2 \in 0 .. 127
    /\ Slot(ChannelOf(events[k].status), events[k].data1) \div ROW
         = ChannelOf(events[k].status)

=============================================================================
